---- MODULE Spec2Model ----
(***************************************************************************)
(* UV curing chamber controller (UVCuring/UVCuring.ino).                   *)
(*                                                                         *)
(* One pass of loop() is one step of the model: the two thermistor         *)
(* conversions, the debounced start/abort button, the start/finish time    *)
(* bookkeeping and the chain of conditionals that drives the two relays    *)
(* and the three LEDs.  The inputs of a pass are the ADC samples of both   *)
(* thermistors, the level of the button pin and the values the             *)
(* millisecond counter has at each millis() call of the pass.              *)
(*                                                                         *)
(* unsigned long is 32 bits wide on the AVR.  TLC's integers are 32-bit    *)
(* signed, so an unsigned long is kept as the pair <<hi, lo>> of its two   *)
(* 16-bit halves and the arithmetic is done half by half, modulo 2^32.     *)
(***************************************************************************)
EXTENDS Integers, Sequences, FiniteSets

(***************************************************************************)
(* Program constants.                                                      *)
(***************************************************************************)
LOW == 0
HIGH == 1

NUMSAMPLES == 5
SampleDelay == 10
target_temp == 60
target_time == 7200000
debounceDelay == 75

(***************************************************************************)
(* Bounds of the exploration.                                              *)
(***************************************************************************)
\* passes of loop() explored, from power-up
MaxTicks == 8
\* passes of loop() explored when only the button is exercised
MaxButtonTicks == 12
\* passes in which something happens between two observations of the program:
\* the millisecond counter steps between two millis() calls, or the pin
\* changes level more than once between two digitalRead calls
MaxGlitches == 1
\* stretches of steady passes (nothing changing but the clock) taken at once
MaxLongWaits == 1
\* passes in which the pin may change when a cycle is followed to its end
MaxLiveTicks == 6
\* passes with a counter step between two millis() calls in such a run
MaxLiveGlitches == 2
\* passes followed after finish_time has gone by
MaxOverduePasses == 2
\* passes of loop() explored around the wrap of the counter
MaxWrapTicks == 6

(***************************************************************************)
(* unsigned long arithmetic.                                               *)
(***************************************************************************)
Half == 2^16

U32(n) == <<n \div Half, n % Half>>

U32Add(a, b) ==
  LET lo == a[2] + b[2]
      hi == a[1] + b[1] + (lo \div Half)
  IN  <<hi % Half, lo % Half>>

U32Sub(a, b) ==
  LET lo == a[2] - b[2]
      hi == a[1] - b[1] - (IF lo < 0 THEN 1 ELSE 0)
  IN  <<(hi + Half) % Half, (lo + Half) % Half>>

U32Lt(a, b) == a[1] < b[1] \/ (a[1] = b[1] /\ a[2] < b[2])

U32Le(a, b) == a = b \/ U32Lt(a, b)

Zero == U32(0)

\* the integer an unsigned long below 2^31 stands for
U32ToInt(a) == a[1] * Half + a[2]

\* a / 60000 for an unsigned long a: 2^16 = 60000 + 5536, so
\* a = 60000 * a[1] + (5536 * a[1] + a[2])
U32DivMinute(a) == a[1] + ((5536 * a[1] + a[2]) \div 60000)

(***************************************************************************)
(* check_Temperature: NUMSAMPLES ADC samples, their mean, the divider      *)
(* resistance, the B-parameter equation; the float result is returned      *)
(* through an int, which truncates it.                                     *)
(*                                                                         *)
(* The float computation (a division by the mean, log) is tabulated: the   *)
(* entry for a sum of samples is the value the function returns, computed  *)
(* with the sketch's expressions in 32-bit floats.  A mean of 0 gives      *)
(* 1023/0 = +inf, res = 0, log(0) = -inf, 1/-inf = -0 and -273.15; a mean  *)
(* of 1023 gives res = 100000/0 = +inf, log = +inf, 1/inf = 0 and          *)
(* -273.15: both return -273.                                              *)
(***************************************************************************)
RECURSIVE SumSamples(_, _)
SumSamples(s, i) == IF i > NUMSAMPLES THEN 0 ELSE s[i] + SumSamples(s, i + 1)

Steinhart(sum) ==
  CASE sum = 0    -> -273
    [] sum = 750  -> 70
    [] sum = 1018 -> 60
    [] sum = 1019 -> 59
    [] sum = 2560 -> 24
    [] sum = 5115 -> -273

check_Temperature(s) == Steinhart(SumSamples(s, 1))

\* ADC sample runs fed to the model, by what they convert to
Short   == <<0, 0, 0, 0, 0>>
Hot70   == <<150, 150, 150, 150, 150>>
Warm60  == <<203, 204, 204, 204, 203>>
Warm59  == <<204, 204, 204, 204, 203>>
Room24  == <<512, 512, 512, 512, 512>>
Open    == <<1023, 1023, 1023, 1023, 1023>>

PlateSamples == {Warm60, Warm59, Open}
BoxSamples == {Room24, Hot70}

(***************************************************************************)
(* The button pin between two digitalRead calls: the edges of its level,   *)
(* each given by the milliseconds between it and the read that follows.    *)
(* The level read is the level of the previous read, flipped once per      *)
(* edge.  A pass lasts at least PassMs ms, so every edge listed falls      *)
(* after the previous read.                                                *)
(***************************************************************************)
SingleEdges == {<< >>, <<10>>}

PinEdges == SingleEdges \cup {<<90, 50, 20>>, <<90, 50, 14>>, <<60, 34>>}

Flip(level) == IF level = LOW THEN HIGH ELSE LOW

LevelAfter(level, n) == IF n % 2 = 0 THEN level ELSE Flip(level)

(***************************************************************************)
(* State.                                                                  *)
(***************************************************************************)
VARIABLES
  clock,             \* the millisecond counter at the last digitalRead
  box_temp, plate_temp, heating,
  cycle_run, buttonState, lastButtonState, lastDebounceTime,
  start_time, finish_time,
  relay_one, relay_two, LED01, LED02, LED03,
  \* the environment
  pin,               \* level of the button pin at the last digitalRead
  elapsed,           \* milliseconds since power-up, not wrapping
  \* what the last pass observed
  run_ctl,           \* cycle_run as the cycle controller found it (line 140)
  now_press,         \* the value of millis() at line 123
  now_ctl,           \* the value of millis() at line 148
  now_end,           \* the value of millis() at line 165
  branch,            \* the branch of the controller that ran (1..5), 0 before
  btn_at,            \* elapsed at line 118 of the last pass
  \* history of the button
  change_at,         \* elapsed at line 116 of the last pass whose reading
                     \* differed from the reading before it (0: none yet)
  toggle_at,         \* elapsed at line 118 of the last pass that toggled
                     \* cycle_run at line 122 (-1: none yet)
  toggle_gap,        \* ms between the last two such passes (-1: fewer)
  released,          \* buttonState committed to HIGH since the last toggle
  tg,                \* the last two presses the debouncer registered
  press,             \* the last two HIGH-to-LOW edges of the pin
  \* the same pass with the other box readings
  box_runs,          \* what the controller leaves (cycle_run and outputs) for
                     \* each box sample run, all else in the pass equal
  \* exploration counters
  ticks, glitches, waits

vars == <<clock, box_temp, plate_temp, heating, cycle_run, buttonState,
          lastButtonState, lastDebounceTime, start_time, finish_time,
          relay_one, relay_two, LED01, LED02, LED03,
          pin, elapsed, run_ctl, now_press, now_ctl, now_end, branch, btn_at,
          change_at, toggle_at, toggle_gap, released, tg, press, box_runs,
          ticks, glitches, waits>>

(***************************************************************************)
(* Outputs written by the branches of the controller.                      *)
(***************************************************************************)
Outputs(h, r1, r2, l1, l2, l3) ==
  [heating |-> h, relay_one |-> r1, relay_two |-> r2,
   LED01 |-> l1, LED02 |-> l2, LED03 |-> l3]

\* the idle outputs with the UV relay left closed
IdleOutputs_UvLeftOn == Outputs(FALSE, LOW, HIGH, LOW, LOW, HIGH)

\* lines 141-146, 150-155 and 174-179
IdleOutputs == Outputs(FALSE, LOW, LOW, LOW, LOW, HIGH)

\* the heating outputs with the heater relay left open
HeatingOutputs_HeaterOff == Outputs(TRUE, LOW, HIGH, HIGH, HIGH, LOW)

\* lines 158-163
HeatingOutputs == Outputs(TRUE, HIGH, HIGH, HIGH, HIGH, LOW)

\* lines 166-171
AtTemperatureOutputs == Outputs(FALSE, HIGH, LOW, HIGH, LOW, LOW)

(***************************************************************************)
(* Lines 113-126: the debounced button.  m116, m118, m123 are the values   *)
(* of millis() at those lines.                                             *)
(***************************************************************************)
\* the debounce test passed without waiting
Settled_AtOnce(m118, ldt) == TRUE

\* line 118: more than debounceDelay since lastDebounceTime
Settled(m118, ldt) == U32Lt(U32(debounceDelay), U32Sub(m118, ldt))

\* every committed level taken for a press
IsPress_AnyLevel(level) == TRUE

\* line 121: the pressed level of the pulled-up pin
IsPress(level) == level = LOW

\* a press that always starts the cycle
Toggle_AlwaysStart(run) == TRUE

\* line 122
Toggle(run) == ~run

\* line 123
FinishAt(m123) == U32Add(m123, U32(target_time))

\* a settled level acted on in every pass, not only when it is new
ButtonLogic_HeldRepeats(reading, m116, m118, m123) ==
  LET ldt     == IF reading # lastButtonState THEN m116 ELSE lastDebounceTime
      commit  == Settled(m118, ldt)
      pressed == commit /\ IsPress(reading)
  IN  [lastDebounceTime |-> ldt,
       buttonState      |-> IF commit THEN reading ELSE buttonState,
       cycle_run        |-> IF pressed THEN Toggle(cycle_run) ELSE cycle_run,
       finish_time      |-> IF pressed THEN FinishAt(m123) ELSE finish_time]

ButtonLogic(reading, m116, m118, m123) ==
  LET ldt     == IF reading # lastButtonState THEN m116 ELSE lastDebounceTime
      commit  == Settled(m118, ldt) /\ reading # buttonState
      pressed == commit /\ IsPress(reading)
  IN  [lastDebounceTime |-> ldt,
       buttonState      |-> IF commit THEN reading ELSE buttonState,
       cycle_run        |-> IF pressed THEN Toggle(cycle_run) ELSE cycle_run,
       finish_time      |-> IF pressed THEN FinishAt(m123) ELSE finish_time]

(***************************************************************************)
(* Lines 132-137: start_time follows the clock while running; both times   *)
(* are zeroed while not running.                                           *)
(***************************************************************************)
\* finish_time pushed forward with start_time on every running pass
TimeBookkeeping_Rearm(run, fin, m133) ==
  IF run THEN [start_time |-> m133, finish_time |-> FinishAt(m133)]
         ELSE [start_time |-> Zero, finish_time |-> Zero]

TimeBookkeeping(run, fin, m133) ==
  IF run THEN [start_time |-> m133, finish_time |-> fin]
         ELSE [start_time |-> Zero, finish_time |-> Zero]

\* the controller comparing the box temperature with the target
ControlTemp_Box(box, plate) == check_Temperature(box)

\* lines 157 and 165: the temperature the controller compares with
\* target_temp is plate_temp (line 102); box_temp (line 101) is only printed
ControlTemp(box, plate) == check_Temperature(plate)

(***************************************************************************)
(* Lines 140-180: the cycle controller.  Each condition reads millis()     *)
(* anew: m148, m157, m165.                                                 *)
(***************************************************************************)
\* the controller with heating left as it was when the cycle times out
CycleController_TimeoutKeepsHeating(run, fin, ptemp, m148, m157, m165) ==
  IF ~run
    THEN [cycle_run |-> run, branch |-> 1, out |-> IdleOutputs]
  ELSE IF run /\ U32Le(fin, m148)
    THEN [cycle_run |-> FALSE, branch |-> 2,
          out |-> [IdleOutputs EXCEPT !.heating = heating]]
  ELSE IF run /\ U32Lt(m157, fin) /\ ptemp < target_temp
    THEN [cycle_run |-> run, branch |-> 3, out |-> HeatingOutputs]
  ELSE IF run /\ U32Lt(m165, fin) /\ ptemp >= target_temp
    THEN [cycle_run |-> run, branch |-> 4, out |-> AtTemperatureOutputs]
  ELSE [cycle_run |-> run, branch |-> 5, out |-> IdleOutputs]

\* the controller with cycle_run left set when the cycle times out
CycleController_TimeoutKeepsRunning(run, fin, ptemp, m148, m157, m165) ==
  IF ~run
    THEN [cycle_run |-> run, branch |-> 1, out |-> IdleOutputs]
  ELSE IF run /\ U32Le(fin, m148)
    THEN [cycle_run |-> run, branch |-> 2, out |-> IdleOutputs]
  ELSE IF run /\ U32Lt(m157, fin) /\ ptemp < target_temp
    THEN [cycle_run |-> run, branch |-> 3, out |-> HeatingOutputs]
  ELSE IF run /\ U32Lt(m165, fin) /\ ptemp >= target_temp
    THEN [cycle_run |-> run, branch |-> 4, out |-> AtTemperatureOutputs]
  ELSE [cycle_run |-> run, branch |-> 5, out |-> IdleOutputs]

\* the controller with the timeout tested by < instead of <=
CycleController_LateTimeout(run, fin, ptemp, m148, m157, m165) ==
  IF ~run
    THEN [cycle_run |-> run, branch |-> 1, out |-> IdleOutputs]
  ELSE IF run /\ U32Lt(fin, m148)
    THEN [cycle_run |-> FALSE, branch |-> 2, out |-> IdleOutputs]
  ELSE IF run /\ U32Lt(m157, fin) /\ ptemp < target_temp
    THEN [cycle_run |-> run, branch |-> 3, out |-> HeatingOutputs]
  ELSE IF run /\ U32Lt(m165, fin) /\ ptemp >= target_temp
    THEN [cycle_run |-> run, branch |-> 4, out |-> AtTemperatureOutputs]
  ELSE [cycle_run |-> run, branch |-> 5, out |-> IdleOutputs]

CycleController(run, fin, ptemp, m148, m157, m165) ==
  IF ~run
    THEN [cycle_run |-> run, branch |-> 1, out |-> IdleOutputs]
  ELSE IF run /\ U32Le(fin, m148)
    THEN [cycle_run |-> FALSE, branch |-> 2, out |-> IdleOutputs]
  ELSE IF run /\ U32Lt(m157, fin) /\ ptemp < target_temp
    THEN [cycle_run |-> run, branch |-> 3, out |-> HeatingOutputs]
  ELSE IF run /\ U32Lt(m165, fin) /\ ptemp >= target_temp
    THEN [cycle_run |-> run, branch |-> 4, out |-> AtTemperatureOutputs]
  ELSE [cycle_run |-> run, branch |-> 5, out |-> IdleOutputs]

(***************************************************************************)
(* The clock during one pass.  The samples of the two conversions cost     *)
(* 2 * NUMSAMPLES delays of SampleDelay ms (line 238), so the digitalRead  *)
(* of one pass and that of the next are PassMs apart.  A long wait stands  *)
(* for a stretch of passes in which the pin keeps the level the debouncer  *)
(* has committed to: such passes change nothing but the clock, start_time  *)
(* and what the last pass rewrites anyway, so the stretch is taken as one  *)
(* pass that lasts as long.                                                *)
(*                                                                         *)
(* millis() at line 116 returns the counter as it is at the digitalRead.   *)
(* Between that and the end of the pass the counter steps at most once:    *)
(* just before the millis() call number jit of the NReads calls that       *)
(* follow (lines 118, 123, 133, 148, 157, 165), or not at all (jit = 0).   *)
(***************************************************************************)
NReads == 6

PassMs == 2 * NUMSAMPLES * SampleDelay

LongWaitMs == target_time - 2 * PassMs

At(c0, jit, k) == IF jit # 0 /\ jit <= k THEN U32Add(c0, U32(1)) ELSE c0

\* the same instants in milliseconds since power-up
ElapsedAt(e0, jit, k) == IF jit # 0 /\ jit <= k THEN e0 + 1 ELSE e0

(***************************************************************************)
(* The presses of the button as the pin shows them.  press.at is the time  *)
(* of the last HIGH-to-LOW edge (-1: none yet), press.gap the time between *)
(* the last two (-1: fewer), press.since_prev and press.since_last the     *)
(* toggles of cycle_run at line 122 since the earlier and the later edge.  *)
(***************************************************************************)
NoPress == [at |-> -1, gap |-> -1, since_prev |-> 0, since_last |-> 0]

PressEdge(p, t) ==
  [at |-> t, gap |-> IF p.at = -1 THEN -1 ELSE t - p.at,
   since_prev |-> p.since_last, since_last |-> 0]

RECURSIVE PressTrack(_, _, _, _, _)
PressTrack(p, level, es, i, e0) ==
  IF i > Len(es) THEN p
  ELSE PressTrack(IF level = HIGH THEN PressEdge(p, e0 - es[i]) ELSE p,
                  Flip(level), es, i + 1, e0)

PressToggled(p, toggled) ==
  IF toggled THEN [p EXCEPT !.since_prev = @ + 1, !.since_last = @ + 1] ELSE p

(***************************************************************************)
(* The last two presses the debouncer registered (buttonState committed to *)
(* LOW, line 121): tg.n counts them (up to 2), tg.at is the time of line   *)
(* 118 of the later one; preA and postA are cycle_run before and after the *)
(* button logic of the earlier one, preB and postB of the later one.       *)
(***************************************************************************)
NoToggle == [n |-> 0, at |-> -1, preA |-> FALSE, postA |-> FALSE,
             preB |-> FALSE, postB |-> FALSE]

ToggleTrack(g, registered, t, before, after) ==
  IF registered
    THEN [n |-> IF g.n = 0 THEN 1 ELSE 2, at |-> t,
          preA |-> g.preB, postA |-> g.postB,
          preB |-> before, postB |-> after]
    ELSE g

(***************************************************************************)
(* setup() and the initialisers of the globals.  Globals without an        *)
(* initialiser (buttonState, start_time, finish_time, the temperatures)    *)
(* are zero.  The button may be held down at power-up.                     *)
(***************************************************************************)
PowerUp ==
  /\ box_temp = 0
  /\ plate_temp = 0
  /\ heating = FALSE
  /\ cycle_run = FALSE
  /\ buttonState = LOW
  /\ lastButtonState = LOW
  /\ lastDebounceTime = Zero
  /\ start_time = Zero
  /\ finish_time = Zero
  /\ relay_one = LOW
  /\ relay_two = LOW
  /\ LED01 = LOW
  /\ LED02 = LOW
  /\ LED03 = HIGH
  /\ pin \in {LOW, HIGH}
  /\ elapsed = 0
  /\ run_ctl = FALSE
  /\ now_press = Zero
  /\ now_ctl = Zero
  /\ now_end = Zero
  /\ branch = 0
  /\ btn_at = 0
  /\ change_at = 0
  /\ toggle_at = -1
  /\ toggle_gap = -1
  /\ released = FALSE
  /\ tg = NoToggle
  /\ box_runs = {[cycle_run |-> FALSE, out |-> IdleOutputs]}
  /\ press = NoPress
  /\ ticks = 0
  /\ glitches = 0
  /\ waits = 0

Init == clock = Zero /\ PowerUp

(***************************************************************************)
(* The sketch some weeks after power-up, at the end of an idle pass whose  *)
(* digitalRead fell shortly before the wrap of the counter to 0 (a whole   *)
(* number of passes of PassMs ms after power-up).  The pin has been LOW    *)
(* ever since power-up: every pass read LOW, which equals lastButtonState  *)
(* and buttonState, so the button globals, cycle_run, the times and the    *)
(* outputs are as setup() left them; box_temp and plate_temp are what the  *)
(* pass converted (lines 101-102), and the controller took its first       *)
(* branch.  Times kept beside the counter (elapsed and the histories)      *)
(* count from this instant.                                                *)
(***************************************************************************)
LateClocks == {U32Sub(Zero, U32(996)), U32Sub(Zero, U32(296))}

InitLate ==
  /\ clock \in LateClocks
  /\ box_temp = check_Temperature(Room24)
  /\ plate_temp \in {check_Temperature(Warm59), check_Temperature(Warm60)}
  /\ heating = FALSE
  /\ cycle_run = FALSE
  /\ buttonState = LOW
  /\ lastButtonState = LOW
  /\ lastDebounceTime = Zero
  /\ start_time = Zero
  /\ finish_time = Zero
  /\ relay_one = LOW
  /\ relay_two = LOW
  /\ LED01 = LOW
  /\ LED02 = LOW
  /\ LED03 = HIGH
  /\ pin = LOW
  /\ elapsed = 0
  /\ run_ctl = FALSE
  /\ now_press = clock
  /\ now_ctl = clock
  /\ now_end = clock
  /\ branch = 1
  /\ btn_at = 0
  /\ change_at = 0
  /\ toggle_at = -1
  /\ toggle_gap = -1
  /\ released = FALSE
  /\ tg = NoToggle
  /\ box_runs = {[cycle_run |-> FALSE, out |-> IdleOutputs]}
  /\ press = NoPress
  /\ ticks = 0
  /\ glitches = 0
  /\ waits = 0


(***************************************************************************)
(* loop(): one pass, lines 98-206.  box and plate are the samples of the   *)
(* two conversions, edges what the pin did since the last digitalRead,     *)
(* skip the milliseconds that a stretch of steady passes before this one   *)
(* took (0: none), jit where the counter steps.                            *)
(***************************************************************************)
Pass(box, plate, edges, skip, jit) ==
  LET reading == LevelAfter(pin, Len(edges))
      adv     == skip + PassMs
      e0      == elapsed + adv
  IN
  \E c0 \in {U32Add(clock, U32(adv))} :
  \E b \in {ButtonLogic(reading, c0, At(c0, jit, 1), At(c0, jit, 2))} :
  \E t \in {TimeBookkeeping(b.cycle_run, b.finish_time, At(c0, jit, 3))} :
  \E c \in {CycleController(b.cycle_run, t.finish_time,
                            ControlTemp(box, plate),
                            At(c0, jit, 4), At(c0, jit, 5), At(c0, jit, 6))} :
  LET toggled    == b.cycle_run # cycle_run
      registered == b.buttonState # buttonState /\ b.buttonState = LOW
  IN /\ box_temp' = check_Temperature(box)
     /\ plate_temp' = check_Temperature(plate)
     /\ lastDebounceTime' = b.lastDebounceTime
     /\ buttonState' = b.buttonState
     /\ start_time' = t.start_time
     /\ finish_time' = t.finish_time
     /\ cycle_run' = c.cycle_run
     /\ heating' = c.out.heating
     /\ relay_one' = c.out.relay_one
     /\ relay_two' = c.out.relay_two
     /\ LED01' = c.out.LED01
     /\ LED02' = c.out.LED02
     /\ LED03' = c.out.LED03
     /\ lastButtonState' = reading
     /\ clock' = c0
     /\ pin' = reading
     /\ elapsed' = e0
     /\ run_ctl' = b.cycle_run
     /\ now_press' = At(c0, jit, 2)
     /\ now_ctl' = At(c0, jit, 4)
     /\ now_end' = At(c0, jit, 6)
     /\ branch' = c.branch
     /\ btn_at' = ElapsedAt(e0, jit, 1)
     /\ change_at' = IF reading # lastButtonState THEN e0 ELSE change_at
     /\ toggle_at' = IF toggled THEN ElapsedAt(e0, jit, 1) ELSE toggle_at
     /\ toggle_gap' = IF toggled /\ toggle_at # -1
                        THEN ElapsedAt(e0, jit, 1) - toggle_at
                        ELSE toggle_gap
     /\ released' = IF toggled THEN FALSE
                     ELSE IF b.buttonState # buttonState
                             /\ b.buttonState = HIGH THEN TRUE
                     ELSE released
     /\ tg' = ToggleTrack(tg, registered, ElapsedAt(e0, jit, 1),
                           cycle_run, b.cycle_run)
     /\ box_runs' =
          {[cycle_run |-> r.cycle_run, out |-> r.out] :
             r \in {CycleController(b.cycle_run, t.finish_time,
                                    ControlTemp(box2, plate), At(c0, jit, 4),
                                    At(c0, jit, 5), At(c0, jit, 6)) :
                      box2 \in BoxSamples}}
     /\ press' = PressToggled(PressTrack(press, pin, edges, 1, e0), toggled)
     /\ ticks' = ticks + 1
     /\ glitches' = IF jit # 0 \/ Len(edges) > 1 THEN glitches + 1
                                                   ELSE glitches
     /\ waits' = IF skip # 0 THEN waits + 1 ELSE waits

JitterPoints == IF glitches < MaxGlitches THEN 0..NReads ELSE {0}

\* a long wait needs the pin steady at the level the debouncer holds
Steady == pin = lastButtonState /\ pin = buttonState

\* and no pass of the stretch may be the one that finds the cycle timed out
FitsBeforeFinish(skip) ==
  cycle_run => U32Lt(U32Add(clock, U32(skip)), finish_time)

(***************************************************************************)
(* Passes from power-up with every thermistor input, the pin changing at   *)
(* most once between two reads, long waits and counter steps.              *)
(***************************************************************************)
Loop ==
  /\ ticks < MaxTicks
  /\ \E edges \in SingleEdges, jit \in JitterPoints,
        skip \in (IF waits < MaxLongWaits /\ Steady THEN {0, LongWaitMs}
                                                    ELSE {0}) :
       /\ skip # 0 => edges = << >> /\ FitsBeforeFinish(skip)
       /\ \E box \in BoxSamples, plate \in PlateSamples :
             Pass(box, plate, edges, skip, jit)

(***************************************************************************)
(* Passes from power-up that exercise the button: the pin may bounce       *)
(* between two reads; the box stays at room temperature and the plate is   *)
(* just below or at the target.                                            *)
(***************************************************************************)
LoopButton ==
  /\ ticks < MaxButtonTicks
  /\ \E edges \in (IF glitches < MaxGlitches THEN PinEdges ELSE SingleEdges),
        jit \in JitterPoints :
       /\ jit # 0 => Len(edges) < 2
       /\ \E plate \in {Warm59, Warm60} :
             Pass(Room24, plate, edges, 0, jit)

(***************************************************************************)
(* A cycle followed to its end.  The button is exercised in the first      *)
(* MaxLiveTicks passes; after them the pin keeps its level and the passes  *)
(* go on for as long as a cycle runs.  Whenever the cycle runs and the pin *)
(* is steady, the steady passes up to the last two before finish_time are  *)
(* taken at once.  The counter may step between two reads in               *)
(* MaxLiveGlitches passes.                                                 *)
(***************************************************************************)
WaitBeforeFinish ==
  IF cycle_run /\ Steady /\ U32Lt(clock, finish_time)
    THEN LET k == ((U32ToInt(U32Sub(finish_time, clock)) - 1) \div PassMs) - 2
         IN  IF k > 0 THEN k * PassMs ELSE 0
    ELSE 0

Overdue ==
  U32Le(U32Add(finish_time, U32(MaxOverduePasses * PassMs)), clock)

LoopLive ==
  /\ ticks < MaxLiveTicks \/ (cycle_run /\ ~Overdue)
  /\ \E edges \in (IF ticks < MaxLiveTicks THEN SingleEdges ELSE {<< >>}),
        jit \in (IF glitches < MaxLiveGlitches THEN 0..NReads ELSE {0}),
        plate \in {Warm59, Warm60} :
       \E skip \in {IF edges = << >> THEN WaitBeforeFinish ELSE 0} :
          Pass(Room24, plate, edges, skip, jit)

(***************************************************************************)
(* Passes around the wrap of the counter: the pin changes at most once     *)
(* between two reads, the counter may step between two millis() calls.     *)
(***************************************************************************)
LoopWrap ==
  /\ ticks < MaxWrapTicks
  /\ \E edges \in SingleEdges, jit \in JitterPoints,
        plate \in {Warm59, Warm60} :
       Pass(Room24, plate, edges, 0, jit)

Next == Loop

Spec == Init /\ [][Next]_vars

NextButton == LoopButton

SpecButton == Init /\ [][NextButton]_vars

NextLive == LoopLive

NextWrap == LoopWrap

SpecWrap == InitLate /\ [][NextWrap]_vars

\* loop() is called again whenever it returns
SpecLive == Init /\ [][NextLive]_vars /\ WF_vars(NextLive)

(***************************************************************************)
(* Properties.  Every state of a behaviour is the state at the end of a    *)
(* pass of loop() (the first: after setup()).  A relay is energised when   *)
(* its pin is HIGH (lines 84-85: "Open with LOW, closed with HIGH").       *)
(***************************************************************************)
RelaysOpen == relay_one = LOW /\ relay_two = LOW

IdleLeds == LED01 = LOW /\ LED02 = LOW /\ LED03 = HIGH

\* the cycle ran through the whole last pass: the controller found it
\* running and finish_time lies after the last millis() of the pass
RunningWithTimeLeft == run_ctl /\ U32Lt(now_end, finish_time)

(***************************************************************************)
(* C1.  At the end of a pass in which the cycle is running, finish_time is *)
(* later than the clock and the plate is at or above target_temp, the      *)
(* heater relay is de-energised, the UV relay energised, the first red LED *)
(* on, the second red LED and the amber LED off.                           *)
(* The sketch energises the heater relay and de-energises the UV relay     *)
(* there (lines 167-168), so the statement is violated.                    *)
(***************************************************************************)
C1_AtTemperatureOutputs ==
  (RunningWithTimeLeft /\ plate_temp >= target_temp)
    => /\ relay_one = LOW
       /\ relay_two = HIGH
       /\ LED01 = HIGH
       /\ LED02 = LOW
       /\ LED03 = LOW

(***************************************************************************)
(* C2.  After setup() and at the end of every pass: if cycle_run is false  *)
(* then both relays are de-energised, both red LEDs are off, the amber LED *)
(* is on and heating is false, whatever the two temperatures are.          *)
(***************************************************************************)
C2_IdleWhenNotRunning ==
  ~cycle_run => RelaysOpen /\ IdleLeds /\ ~heating

\* the cycle has just timed out with a plate that would call for heat and
\* a box above the target
C2_Witness ==
  /\ ~cycle_run
  /\ branch = 2
  /\ plate_temp < target_temp
  /\ box_temp > target_temp

(***************************************************************************)
(* C3.  A pass whose controller finds cycle_run true and finish_time less  *)
(* than or equal to the value millis() returns at line 148 ends with       *)
(* cycle_run false, heating false and the idle outputs.                    *)
(***************************************************************************)
C3_TimeoutEndsCycle ==
  (run_ctl /\ U32Le(finish_time, now_ctl))
    => ~cycle_run /\ ~heating /\ RelaysOpen /\ IdleLeds

\* the controller ran exactly at finish_time
C3_Witness == run_ctl /\ finish_time = now_ctl

(***************************************************************************)
(* C4.  At the end of a pass in which the cycle is running, finish_time is *)
(* later than the clock (at every millis() of the pass) and the plate is   *)
(* below target_temp, both relays are energised, both red LEDs are on, the *)
(* amber LED is off and heating is true.                                   *)
(***************************************************************************)
C4_HeatingOutputs ==
  (RunningWithTimeLeft /\ plate_temp < target_temp)
    => /\ heating
       /\ relay_one = HIGH
       /\ relay_two = HIGH
       /\ LED01 = HIGH
       /\ LED02 = HIGH
       /\ LED03 = LOW

\* a running pass with the plate one degree below the target
C4_Witness == RunningWithTimeLeft /\ plate_temp = target_temp - 1

(***************************************************************************)
(* C10.  At the end of every pass, cycle_run = false implies start_time =  *)
(* 0 and finish_time = 0; in particular at the end of the pass in which    *)
(* the cycle ends, by a press or by timeout.                               *)
(* Lines 132-137 zero the two times before the controller tests the        *)
(* timeout, so the pass in which the cycle times out ends with cycle_run   *)
(* false and both times still set.                                         *)
(***************************************************************************)
C10_TimesZeroWhenNotRunning ==
  ~cycle_run => start_time = Zero /\ finish_time = Zero

(***************************************************************************)
(* The button.  A pass toggles cycle_run at line 122 when the value the    *)
(* controller then finds differs from the value the pass began with; it    *)
(* registers a press when buttonState commits to LOW.                      *)
(***************************************************************************)
\* the last pass toggled cycle_run in the button logic
JustToggled == toggle_at = btn_at

\* the last pass registered a press
JustRegistered == tg.at = btn_at

(***************************************************************************)
(* C5.  A pass toggles cycle_run in the button logic if and only if        *)
(* buttonState commits to LOW in that pass (passes with the button merely  *)
(* held, and commits to HIGH, do not toggle); buttonState has committed to *)
(* HIGH since the toggle before; and two presses of the pin less than      *)
(* debounceDelay apart have toggled cycle_run at most once.                *)
(***************************************************************************)
C5_ToggleOnPressCommit ==
  [][
    LET toggled == run_ctl' # cycle_run
    IN /\ toggled <=> (buttonState = HIGH /\ buttonState' = LOW)
       /\ toggled => released
       /\ (press'.gap # -1 /\ press'.gap < debounceDelay)
            => press'.since_prev <= 1
  ]_vars

\* two presses 70 ms apart, the second held: one toggle, in the last pass
C5_Witness ==
  /\ JustToggled
  /\ press.gap # -1
  /\ press.gap < debounceDelay
  /\ press.since_prev = 1

(***************************************************************************)
(* C6.  buttonState changes in a pass only if the reading of the pass      *)
(* differs from buttonState and more than debounceDelay ms lie between     *)
(* line 116 of the last pass whose reading differed from the reading       *)
(* before it and line 118 of this pass; a level observed unchanged for     *)
(* debounceDelay ms or less does not change buttonState.                   *)
(***************************************************************************)
C6_DebounceHolds ==
  [][
    /\ buttonState' # buttonState
         => /\ lastButtonState' # buttonState
            /\ btn_at' - change_at' > debounceDelay
    /\ btn_at' - change_at' <= debounceDelay => buttonState' = buttonState
  ]_vars

\* the first press commits: LOW was read a pass ago and again now, and
\* PassMs + 1 ms lie between line 116 of that pass and line 118 of this
C6_Witness ==
  /\ JustToggled
  /\ tg.n = 1
  /\ buttonState = LOW
  /\ btn_at - change_at = PassMs + 1

(***************************************************************************)
(* C7.  While a cycle is running, two presses in succession, each          *)
(* registered by the debouncer, abort it: after the second press cycle_run *)
(* is false and both relays are de-energised.                              *)
(* The second press toggles cycle_run again (line 122) and restarts the    *)
(* cycle, so the statement is violated.                                    *)
(***************************************************************************)
C7_DoublePressAborts ==
  (JustRegistered /\ tg.n = 2 /\ tg.preA /\ tg.preB = tg.postA)
    => ~cycle_run /\ RelaysOpen

(***************************************************************************)
(* C8, as stated.  Two presses of the button debounceDelay + 1 ms apart,   *)
(* the second held until it is registered, have each toggled cycle_run.    *)
(***************************************************************************)
C8_TwoPresses76Apart ==
  (press.gap = debounceDelay + 1 /\ press.since_last >= 1)
    => press.since_prev = 2

(***************************************************************************)
(* C8, amended.  Two presses debounceDelay + 1 ms apart toggle cycle_run   *)
(* at most once.  Two toggles by the button are more than 2*debounceDelay  *)
(* apart, and when nothing changed cycle_run between two registered        *)
(* presses, cycle_run has after the second the value it had before the     *)
(* first.                                                                  *)
(***************************************************************************)
C8_PressesToggleOncePerCommit ==
  /\ press.gap = debounceDelay + 1 => press.since_prev <= 1
  /\ toggle_gap # -1 => toggle_gap > 2 * debounceDelay
  /\ (tg.n = 2 /\ tg.preB = tg.postA) => tg.postB = tg.preA

\* a second toggle, caused by two presses 76 ms apart that count as one
C8_Witness ==
  /\ JustRegistered
  /\ tg.n = 2
  /\ tg.preB = tg.postA
  /\ press.gap = debounceDelay + 1
  /\ press.since_prev = 1

(***************************************************************************)
(* C9.  In a pass whose press changes cycle_run from false to true,        *)
(* finish_time ends as the value millis() returned at line 123 plus        *)
(* target_time (in unsigned long arithmetic); and from the end of a pass   *)
(* to the end of the next, while cycle_run stays true, finish_time does    *)
(* not change.                                                             *)
(***************************************************************************)
C9_FinishTimeSetOnce ==
  [][
    /\ (~cycle_run /\ run_ctl')
         => finish_time' = U32Add(now_press', U32(target_time))
    /\ (cycle_run /\ cycle_run') => finish_time' = finish_time
  ]_vars

\* a cycle started two passes ago, the counter having stepped between
\* lines 118 and 123 of the pass that started it, and still running
C9_Witness ==
  /\ cycle_run
  /\ ~JustToggled
  /\ tg.n = 1
  /\ finish_time = U32(toggle_at + 1 + target_time)

(***************************************************************************)
(* C11.  A plate sensor whose mean ADC reading is 0 or 1023 converts to    *)
(* check_Temperature(Short) = check_Temperature(Open); in a pass in which  *)
(* the controller finds the cycle running with such a plate reading the    *)
(* heater relay is not energised and heating is false.                     *)
(* The reading converts to -273, which is below target_temp, so the        *)
(* Heating branch (lines 157-164) runs and the statement is violated.      *)
(***************************************************************************)
C11_ExtremeReadingNoHeat ==
  (run_ctl /\ plate_temp \in {check_Temperature(Short),
                               check_Temperature(Open)})
    => relay_one = LOW /\ ~heating

(***************************************************************************)
(* C12.  The box temperature is only reported.  Two executions that agree  *)
(* up to a pass and get in it the same pin readings, the same counter      *)
(* values and the same plate samples, but any two box sample runs, end the *)
(* pass with the same cycle_run, heating, relay and LED values: the values *)
(* the pass leaves for each of the box sample runs are all the values the  *)
(* execution has.  Executions that agree before the first pass therefore   *)
(* agree after every pass.                                                 *)
(***************************************************************************)
C12_BoxTemperatureIgnored ==
  box_runs = {[cycle_run |-> cycle_run,
               out |-> Outputs(heating, relay_one, relay_two,
                               LED01, LED02, LED03)]}

\* a running pass with a plate below the target and a box above it: the
\* heater is on although the box reads 70 C
C12_Witness ==
  /\ RunningWithTimeLeft
  /\ plate_temp < target_temp
  /\ box_temp > target_temp
  /\ heating

(***************************************************************************)
(* C13.  After setup() and at the end of every pass, heating is true only  *)
(* if cycle_run is true.                                                   *)
(***************************************************************************)
C13_HeatingImpliesRunning == heating => cycle_run

\* the Heating branch has run: heating is set and the cycle goes on
C13_Witness == heating /\ cycle_run /\ branch = 3

(***************************************************************************)
(* Line 183: the time remaining that the status line reports, the unsigned *)
(* long quotient of finish_time - start_time by 60000 (then stored in a    *)
(* float).  Nothing between line 183 and the end of the pass changes the   *)
(* operands, so it is a function of the state at the end of the pass.      *)
(***************************************************************************)
minutes == U32DivMinute(U32Sub(finish_time, start_time))

(***************************************************************************)
(* C14.  At the end of a pass that reports cycle_run false, the reported   *)
(* time remaining is zero, the pass in which the cycle times out included. *)
(* In the pass that times out start_time has been set to millis() (line    *)
(* 133) before the controller clears cycle_run; when finish_time lies     *)
(* before that reading the unsigned difference wraps, so the statement is  *)
(* violated.                                                               *)
(***************************************************************************)
C14_NoTimeLeftWhenStopped == ~cycle_run => minutes = 0

(***************************************************************************)
(* C15, as stated.  In every pass whose reading of the pin equals the      *)
(* reading of the pass before, cycle_run and heating end as they began.    *)
(***************************************************************************)
C15_UnchangedReadingIdempotent ==
  [][
    lastButtonState' = lastButtonState
      => cycle_run' = cycle_run /\ heating' = heating
  ]_vars

(***************************************************************************)
(* C15, amended.  In a pass whose reading equals both the reading of the   *)
(* pass before and buttonState, the button logic leaves cycle_run as it    *)
(* was.  Such a pass ends with cycle_run and heating unchanged if the      *)
(* cycle is not running, and if it is running, finish_time is later than   *)
(* every millis() of the pass and the plate is below target_temp exactly   *)
(* when heating was set.                                                   *)
(***************************************************************************)
C15_SteadyButtonIdempotent ==
  [][
    (lastButtonState' = lastButtonState /\ lastButtonState' = buttonState)
      => /\ run_ctl' = cycle_run
         /\ ~cycle_run => (cycle_run' = cycle_run /\ heating' = heating)
         /\ ( /\ cycle_run
              /\ U32Lt(now_end', finish_time')
              /\ heating <=> plate_temp' < target_temp )
              => (cycle_run' = cycle_run /\ heating' = heating)
  ]_vars

\* the button released and steady for two passes or more while the cycle
\* runs and heats
C15_Witness ==
  /\ cycle_run
  /\ heating
  /\ branch = 3
  /\ lastButtonState = HIGH
  /\ buttonState = HIGH
  /\ btn_at - change_at >= 2 * PassMs

(***************************************************************************)
(* C16.  The last branch of the controller (lines 173-180) never runs, and *)
(* no pass ends with cycle_run true and the idle outputs.                  *)
(* Each condition of the chain reads millis() anew.  When the counter      *)
(* reaches finish_time between the read of line 148 and that of line 157   *)
(* or 165, the timeout branch and both running branches are skipped, so    *)
(* the statement is violated.                                              *)
(***************************************************************************)
C16_FallbackNeverRuns ==
  /\ branch # 5
  /\ ~(cycle_run /\ RelaysOpen /\ IdleLeds)

(***************************************************************************)
(* C17.  With loop() called again and again and the counter not wrapping,  *)
(* every cycle that runs at the end of a pass has ended at the end of a    *)
(* later pass, with both relays de-energised; and cycle_run stays false    *)
(* and the relays stay de-energised in every pass that does not commit     *)
(* buttonState to LOW.                                                     *)
(***************************************************************************)
C17_StartedCycleEnds ==
  /\ cycle_run ~> (~cycle_run /\ RelaysOpen)
  /\ [][ (~cycle_run /\ ~(buttonState = HIGH /\ buttonState' = LOW))
           => (~cycle_run' /\ RelaysOpen') ]_vars

\* one press started a cycle; it ran to finish_time and the timeout ended it
C17_Witness ==
  /\ tg.n = 1
  /\ branch = 2
  /\ ~cycle_run
  /\ RelaysOpen
  /\ U32ToInt(finish_time) >= target_time

(***************************************************************************)
(* C18.  Whatever the counter shows when a press starts a cycle, the cycle *)
(* runs at the end of every pass that comes less than target_time ms       *)
(* after the start, and no longer runs at the end of a pass that comes     *)
(* more than target_time ms after it.  The times are real time: that of    *)
(* line 118 of the pass against that of line 118 of the pass that          *)
(* registered the press, a millisecond allowed for the reads that follow.  *)
(* When millis() + target_time overflows at line 123, finish_time is       *)
(* below the counter and line 148 ends the cycle in the pass that started  *)
(* it, so the statement is violated.                                       *)
(***************************************************************************)
C18_CycleLastsTargetTime ==
  (tg.n >= 1 /\ tg.postB)
    => /\ btn_at - tg.at + 1 < target_time => cycle_run
       /\ btn_at - tg.at > target_time => ~cycle_run

(***************************************************************************)
(* C19.  The button logic takes cycle_run from false to true only in a     *)
(* pass whose reading is LOW, equals the reading of the pass before and    *)
(* finds buttonState HIGH.  As long as the pin has had no HIGH-to-LOW edge *)
(* since power-up (never pressed, or held down from power-up on),          *)
(* cycle_run is false and both relays are de-energised.                    *)
(***************************************************************************)
C19_StartNeedsDebouncedPress ==
  /\ [][ (~cycle_run /\ run_ctl')
           => /\ lastButtonState' = LOW
              /\ lastButtonState = LOW
              /\ buttonState = HIGH ]_vars
  /\ [](press.at = -1 => ~cycle_run /\ RelaysOpen)

\* the first press has just started a cycle: LOW read a pass ago and now
C19_Witness ==
  /\ JustRegistered
  /\ tg.n = 1
  /\ ~tg.preB
  /\ cycle_run
  /\ lastButtonState = LOW
  /\ press.at # -1
  /\ btn_at - change_at = PassMs

====
